---- MODULE Spec2Model ----
(***************************************************************************)
(* A model of the automatic monitoring core of the USDT withdrawal bot:    *)
(* AutoModeManager (src/auto_mode.py), the chat and HTTP producers that    *)
(* feed it (src/handlers.py, src/web_api.py) and the two write operations  *)
(* of BlockchainManager (src/blockchain.py).                               *)
(*                                                                         *)
(* Units.  Token amounts are counted in tenths of a USDT, native-coin      *)
(* amounts in 1e-8 BNB, time in seconds.  A failed read (Python None) is   *)
(* the integer None.                                                       *)
(*                                                                         *)
(* Scheduling.  The polling task and the chat handlers run on the event    *)
(* loop of the bot; the sweep contains no suspending await (every chain    *)
(* call is synchronous), so a chat handler runs only while the task is     *)
(* absent or asleep.  The HTTP handlers run on the event loop of another   *)
(* thread (web_api.py 357), so their steps interleave with everything.     *)
(*                                                                         *)
(* Specifications.  Spec is the whole program over NumWallets accounts.    *)
(* SpecSweep is the polling task and the toggles over SweepWallets         *)
(* registered wallets, for the properties of one sweep over several        *)
(* wallets.  SpecAddress is the normalisation of one submitted text, step  *)
(* by step, over the texts of TextAccounts accounts.  SpecRegistry is the  *)
(* three registry methods of AutoModeManager called with any text of       *)
(* RegistryWallets accounts.  SpecWrites is the two write operations of    *)
(* BlockchainManager called as the policies call them, with every outcome  *)
(* of the reads they make themselves.  SpecWait is one confirmation wait   *)
(* of a write operation, poll by poll.  SpecEligibility is the response of *)
(* the HTTP submission for every pair of balances, with the gas toggle.    *)
(* SpecCopy is SpecSweep over one registered wallet with HTTP submissions  *)
(* of another.  SpecInput is the chat session: the buttons that await a text and the    *)
(* handlers of the text awaited.                                           *)
(*                                                                         *)
(* SpecProbe is the polling task, the toggles and the HTTP submission     *)
(* from the state after construction, with the probe kept.                *)
(*                                                                         *)
(* History.  The variables ev, probe, tickSent, evaluated, raised,         *)
(* httpDone and httpAtTick record what the program did; no action reads    *)
(* them to decide what the program does.                                   *)
(***************************************************************************)
EXTENDS Integers, Sequences, FiniteSets, TLC

\* ------------------------------------------------------------ bounds
\* Accounts the producers of Spec submit, clock steps after the start, and
\* wallets registered at the start of SpecSweep, accounts whose texts
\* SpecAddress normalises, accounts whose texts SpecRegistry is called with,
\* the largest token amount (in tenths) a read returns in SpecWrites.
NumWallets == 1
MaxSteps == 1
SweepWallets == 2
TextAccounts == 2
RegistryWallets == 2
MaxRead == 3
LateSteps == 3
MaxCalls == 3

\* ------------------------------------------- program constants (config.py)
AUTO_WITHDRAW_INTERVAL == 30
AUTO_GAS_CHECK_INTERVAL == 60
AUTO_GAS_USDT_THRESHOLD == 5
AUTO_GAS_BNB_THRESHOLD == 720
AUTO_GAS_BNB_AMOUNT == 1000
GAS_BUFFER == 10000
ADDRESS_HEX_LEN == 40
WAIT_TIMEOUT == 120
SEND_BNB_WAIT_TIMEOUT == 60
RETRY_DELAY == 2
HTTP_USDT_FLOOR == 5
HTTP_BNB_CEILING == 720
MAX_USDT_AMOUNT == 10000000
MAX_DECIMALS == 6

None == -1

Min(a, b) == IF a <= b THEN a ELSE b

\* The clock advances in steps of the shortest interval, the sleep of the loop.
Quantum == Min(AUTO_WITHDRAW_INTERVAL, AUTO_GAS_CHECK_INTERVAL)
\* time.time() is far past zero: an absent cooldown entry (default 0) never blocks.
Epoch == AUTO_GAS_CHECK_INTERVAL
MaxTime == Epoch + MaxSteps * Quantum

\* ------------------------------------------------------------ addresses
\* An address text is <<account, form>>: the same 20-byte account written in
\* lowercase, in uppercase or in the mixed-case checksummed form.
Forms == {"lower", "upper", "checksum"}
Accounts == 1..NumWallets
Texts == Accounts \X Forms
NoWallet == <<0, "none">>

\* A registry that keeps the text as typed.
NoChecksum(text) == text

\* Web3.to_checksum_address: every form of an account gives its checksummed form.
to_checksum_address(text) == <<text[1], "checksum">>
Wallets == {to_checksum_address(x) : x \in Texts}

\* ------------------------------------------------- values the chain returns
AllowanceReads == {None, 0, 5}
UsdtReads == {None, 0, 4, 6}
BnbReads == {None, 10, 720}
SenderBnbReads == {None, 0, 20000}
Receipts == {"none", "reverted", "ok"}
GasUsdtThresholds == {0, AUTO_GAS_USDT_THRESHOLD}

VARIABLES
    auto_mode_enabled,      \* AutoModeManager.auto_mode_enabled
    auto_gas_enabled,       \* AutoModeManager.auto_gas_enabled
    running,                \* AutoModeManager.running
    monitored_wallets,      \* AutoModeManager.monitored_wallets
    last_auto_withdrawal,   \* dict wallet -> tick time of the last successful withdrawal
    last_auto_gas,          \* dict wallet -> tick time of the last successful top-up
    usdt_threshold,         \* config.AUTO_GAS_USDT_THRESHOLD as read from the environment
    now,                    \* time.time()
    pc,                     \* position of auto_task: "none", "ready", "sweep", "sleep",
                            \* "cancelled" (cancel() called, CancelledError not yet raised)
    tasks,                  \* number of polling tasks created and neither cancelled nor ended
    current_time,           \* local of _auto_monitoring_loop
    snapshot,               \* monitored_wallets.copy() of the running tick
    todo,                   \* wallets of the copy not yet visited
    cur,                    \* wallet whose withdrawal check is done and gas check is due
    sleep_until,            \* deadline of asyncio.sleep
    wallet,                 \* context.user_data["wallet"] of the chat user
    http,                   \* the submit-wallet request in progress
    ev,                     \* history: what the last step did
    probe,                  \* history: one earlier write, kept to compare later ones with
    tickSent,               \* history: result of the writes of the running tick
    evaluated,              \* history: wallets the running tick has called a check for
    raised,                 \* history: wallets whose check raised in the running tick
    httpDone,               \* history: wallets whose HTTP submission returned success
    httpAtTick,             \* history: httpDone when the running tick started
    addr,                   \* a text under normalisation: the input and what each step gave
    wait,                   \* a confirmation wait: where it is and what it has got
    session,                \* context.user_data: the two flags of the text awaited
    issued,                 \* history: when the loop issued its last two successful
                            \* writes of each kind to each wallet
    flight                  \* the write calls in progress in each thread, the
                            \* transaction counts and the pool of the node

vars == <<auto_mode_enabled, auto_gas_enabled, running, monitored_wallets,
          last_auto_withdrawal, last_auto_gas, usdt_threshold, now, pc, tasks,
          current_time, snapshot, todo, cur, sleep_until, wallet, http, ev,
          probe, tickSent, evaluated, raised, httpDone, httpAtTick, addr, wait, session,
          issued, flight>>

\* The variables of the specifications of single operations.
aside == <<addr, wait, session, issued, flight>>

Kinds == {"withdraw", "gas"}

\* ------------------------------------------------------------- address texts
\* A text is a sequence of characters.  The characters that matter: decimal
\* digits, the hex letters in both cases, the x of the prefix in both cases, a
\* letter that is no hex digit, and the blank.
HexDigits == {"0", "1", "2"}
HexLower == {"a", "b"}
HexUpper == {"A", "B"}
HexChars == HexDigits \cup HexLower \cup HexUpper

\* str.lower() and str.upper() on one character
LowerChar(c) == IF c = "A" THEN "a" ELSE IF c = "B" THEN "b" ELSE IF c = "X" THEN "x" ELSE c
UpperChar(c) == IF c = "a" THEN "A" ELSE IF c = "b" THEN "B" ELSE IF c = "x" THEN "X" ELSE c

\* str.lower()
lower(s) == [i \in 1..Len(s) |-> LowerChar(s[i])]

\* str.strip()
strip(s) ==
    LET inked == {i \in 1..Len(s) : s[i] # " "}
    IN  IF inked = {} THEN <<>>
        ELSE SubSeq(s, CHOOSE i \in inked : \A j \in inked : i <= j,
                       CHOOSE i \in inked : \A j \in inked : i >= j)

\* all(c in '0123456789abcdefABCDEF' for c in s)
AllHex(s) == \A i \in 1..Len(s) : s[i] \in HexChars

\* s.startswith('0x')
StartsWith0x(s) == Len(s) >= 2 /\ s[1] = "0" /\ s[2] = "x"

\* The positions where re.search(r'(0x[a-fA-F0-9]{40})', s) can match.
MatchStarts(s) ==
    {i \in 1..Len(s) :
        /\ i + 1 + ADDRESS_HEX_LEN <= Len(s)
        /\ s[i] = "0"
        /\ s[i + 1] = "x"
        /\ \A j \in 2..(1 + ADDRESS_HEX_LEN) : s[i + j] \in HexChars}

\* A cleaning that only trims: no address is extracted from the text.
Trimmed(address) == strip(address)

\* BlockchainManager.clean_address_input
clean_address_input(address) ==
    LET a == strip(address)
        starts == MatchStarts(a)
    IN  IF starts # {}
          THEN LET first == CHOOSE i \in starts : \A j \in starts : i <= j
               IN  SubSeq(a, first, first + 1 + ADDRESS_HEX_LEN)
        ELSE IF Len(a) = ADDRESS_HEX_LEN /\ AllHex(a)
          THEN <<"0", "x">> \o a
        ELSE a

\* int(s, 16) returns a value: Python allows blanks around the digits.
IntParses(s) == strip(s) # <<>> /\ AllHex(strip(s))

\* Web3.is_address on an all-lowercase text: 0x and forty hex digits.
is_address(s) == StartsWith0x(s) /\ Len(s) = 2 + ADDRESS_HEX_LEN /\ AllHex(SubSeq(s, 3, Len(s)))

\* BlockchainManager.validate_address
validate_address(address) ==
    LET a == lower(strip(address))
        digits == IF StartsWith0x(a) THEN SubSeq(a, 3, Len(a)) ELSE a
    IN  IF Len(digits) # ADDRESS_HEX_LEN THEN FALSE
        ELSE IF ~IntParses(digits) THEN FALSE
        ELSE is_address(<<"0", "x">> \o digits)

\* The letters EIP-55 writes in upper case: a function of the lowercase digits
\* alone (there, of their hash; here, of the first digit).
Eip55Upper(digits) ==
    {i \in 1..Len(digits) : digits[i] \in HexLower /\ i % 3 = (IF digits[1] \in HexLower THEN 1 ELSE 0)}

\* Forty lowercase hex digits in the EIP-55 case.
Eip55(digits) ==
    [i \in 1..Len(digits) |->
        IF i \in Eip55Upper(digits) THEN UpperChar(digits[i]) ELSE digits[i]]

\* What Web3.to_checksum_address gives for a text it rejects (ValueError).
Rejected == <<"!">>

\* A checksum that keeps the text as typed.
AsTyped(s) == s

\* Web3.to_checksum_address on a text: the text is lowercased, a 0x prefix in
\* either case is dropped, forty hex digits are required and are written back
\* with 0x and the EIP-55 case.
checksum_text(s) ==
    LET a == lower(s)
        digits == IF StartsWith0x(a) THEN SubSeq(a, 3, Len(a)) ELSE a
    IN  IF Len(digits) = ADDRESS_HEX_LEN /\ AllHex(digits)
          THEN <<"0", "x">> \o Eip55(digits)
          ELSE Rejected

\* handle_wallet_input and handle_text: clean_address_input, then the checksum.
normalize(s) == checksum_text(clean_address_input(s))

\* The forty hex digits of account k, letters in lower case.
DigitsOf(k) ==
    [i \in 1..ADDRESS_HEX_LEN |->
        IF (i + k) % 2 = 0 THEN <<"a", "b">>[(k % 2) + 1] ELSE <<"0", "1", "2">>[(k % 3) + 1]]

\* The digits of account k as typed in one of the case forms.
Typed(k, form) ==
    IF form = "lower" THEN DigitsOf(k)
    ELSE IF form = "upper" THEN [i \in 1..ADDRESS_HEX_LEN |-> UpperChar(DigitsOf(k)[i])]
    ELSE Eip55(DigitsOf(k))

\* The texts submitted: some words, a prefix, the digits of an account (all
\* forty, one short, or one more), some more words.
Prefixes == {<<>>, <<"0", "x">>, <<"0", "X">>}
Before == {<<>>, <<" ">>, <<"g", " ">>}
After == {<<>>, <<" ">>, <<" ", "g">>}
Bodies ==
    UNION {{Typed(k, form), SubSeq(Typed(k, form), 2, ADDRESS_HEX_LEN),
            Typed(k, form) \o <<"1">>} : <<k, form>> \in (1..TextAccounts) \X Forms}
AddressTexts ==
    {x[1] \o x[2] \o x[3] \o x[4] : x \in Before \X Prefixes \X Bodies \X After}

\* The accounts whose forty digits, in any case, stand in a text.
AccountsIn(text) ==
    {k \in 1..TextAccounts :
        \E i \in 1..Len(text) :
            /\ i + ADDRESS_HEX_LEN - 1 <= Len(text)
            /\ SubSeq(lower(text), i, i + ADDRESS_HEX_LEN - 1) = DigitsOf(k)}

\* context.user_data of a chat user that awaits no text.
NoSession == [awaiting_wallet |-> FALSE, awaiting_amount |-> FALSE]

\* The steps of one normalisation: nothing yet, cleaned, validated, checksummed,
\* normalised again.
NoAddr == [step |-> "none", text |-> <<>>, cleaned |-> <<>>, valid |-> FALSE,
           canonical |-> <<>>, again |-> <<>>]

\* ------------------------------------------------------------ dict helpers
\* dict.get(key, 0)
Get(d, k) == IF k \in DOMAIN d THEN d[k] ELSE 0

\* d[key] = value
Put(d, k, v) == [x \in DOMAIN d \cup {k} |-> IF x = k THEN v ELSE d[x]]

EmptyDict == [x \in {} |-> 0]

\* ------------------------------------------------------- MonitorRegistry
\* AutoModeManager.add_wallet: the checksummed form is inserted.
add_wallet(set, address) == set \cup {to_checksum_address(address)}

\* AutoModeManager.remove_wallet
remove_wallet(set, address) == set \ {to_checksum_address(address)}

\* A registration that inserts nothing.
NotInserted(set, wallet_address) == set

\* AutoModeManager.add_wallet_for_gas_monitoring: the text is inserted as given.
add_wallet_for_gas_monitoring(set, wallet_address) ==
    IF wallet_address \notin set THEN set \cup {wallet_address} ELSE set

\* ------------------------------------------------------------- RateGate
\* _check_auto_withdrawal: current_time - last_withdrawal < AUTO_WITHDRAW_INTERVAL
WithdrawRateLimited(last, w, t) == t - Get(last, w) < AUTO_WITHDRAW_INTERVAL

\* A gas rate check that looks in the table of the withdrawals.
SharedCooldown(last, w, t) == t - Get(last_auto_withdrawal, w) < AUTO_GAS_CHECK_INTERVAL

\* _check_auto_gas: current_time - last_gas < AUTO_GAS_CHECK_INTERVAL
GasRateLimited(last, w, t) == t - Get(last, w) < AUTO_GAS_CHECK_INTERVAL

\* ------------------------------------------------------------- policies
\* _check_auto_withdrawal: allowance > 0 and balance > 0
WithdrawCondition(allowance, balance) == allowance > 0 /\ balance > 0

\* An amount that ignores the balance.
WholeAllowance(allowance, balance) == allowance

\* _check_auto_withdrawal: withdraw_amount = min(allowance, balance)
WithdrawAmount(allowance, balance) == Min(allowance, balance)

\* handle_withdraw_all: the two early returns (allowance <= 0, balance <= 0)
WithdrawAllCondition(allowance, balance) == ~(allowance <= 0) /\ ~(balance <= 0)

\* handle_withdraw_all: withdraw_amount = min(allowance, balance)
WithdrawAllAmount(allowance, balance) == Min(allowance, balance)

\* An eligibility test without the clause on a zero token balance.
NoPositiveTest(usdt_balance, bnb_balance, threshold) ==
    /\ usdt_balance >= threshold
    /\ bnb_balance < AUTO_GAS_BNB_THRESHOLD
    /\ bnb_balance >= 0

\* _check_auto_gas: should_send_gas
should_send_gas(usdt_balance, bnb_balance, threshold) ==
    /\ usdt_balance >= threshold
    /\ bnb_balance < AUTO_GAS_BNB_THRESHOLD
    /\ usdt_balance > 0
    /\ bnb_balance >= 0

\* check_immediate_auto_gas: should_send_gas
immediate_should_send_gas(usdt_balance, bnb_balance, threshold) ==
    /\ usdt_balance >= threshold
    /\ bnb_balance < AUTO_GAS_BNB_THRESHOLD
    /\ usdt_balance > 0
    /\ bnb_balance >= 0

\* submit_wallet_from_website: the auto_gas_eligible field of the response,
\* with the two numbers written in the expression.
http_auto_gas_eligible(usdt_balance, bnb_balance, enabled) ==
    /\ usdt_balance >= HTTP_USDT_FLOOR
    /\ bnb_balance < HTTP_BNB_CEILING
    /\ enabled

\* ---------------------------------------------------------- ChainGateway
\* send_raw_transaction and the wait for the receipt: the transaction is
\* broadcast, and the call succeeds when the receipt has status 1.
Sent(receipt) ==
    [ok |-> (receipt = "ok"), broadcast |-> TRUE,
     message |-> IF receipt = "ok" THEN "Successfully sent" ELSE "Transaction failed or was reverted"]

\* A wait whose loop has no exit on time.
WaitsForever(elapsed, timeout) == TRUE

\* wait_for_transaction: while time.time() - start_time < timeout
KeepsWaiting(elapsed, timeout) == elapsed < timeout

\* What get_transaction_receipt gives: a receipt with status 1 or 0,
\* TransactionNotFound, or another exception.
ReceiptCalls == {"ok", "reverted", "notfound", "error"}

\* The timeout each write operation waits with (lines 225 and 332).
TimeoutOf(op) == IF op = "send_bnb" THEN SEND_BNB_WAIT_TIMEOUT ELSE WAIT_TIMEOUT

\* No wait in progress.
NoWait == [pc |-> "idle", op |-> "none", timeout |-> 0, elapsed |-> 0, seen |-> "none",
           receipt |-> "none", result |-> [ok |-> FALSE, broadcast |-> FALSE, message |-> ""]]

\* A withdrawal that trusts the reads of its caller.
TrustsCaller(amount_usdt, allowance, balance, receipt) == Sent(receipt)

\* BlockchainManager.withdraw_usdt(from_wallet, amount_usdt), given what its own
\* reads of allowance and balance return and the receipt the wait ends with.
withdraw_usdt(amount_usdt, allowance, balance, receipt) ==
    IF allowance = None
      THEN [ok |-> FALSE, broadcast |-> FALSE, message |-> "Failed to check allowance"]
    ELSE IF allowance < amount_usdt
      THEN [ok |-> FALSE, broadcast |-> FALSE, message |-> "Insufficient allowance"]
    ELSE IF balance = None
      THEN [ok |-> FALSE, broadcast |-> FALSE, message |-> "Failed to check wallet balance"]
    ELSE IF balance < amount_usdt
      THEN [ok |-> FALSE, broadcast |-> FALSE, message |-> "Insufficient balance"]
    ELSE Sent(receipt)

\* A transfer that wants the amount covered, not the gas buffer.
NoBuffer(amount_bnb, sender_balance, receipt) ==
    IF sender_balance = None
      THEN [ok |-> FALSE, broadcast |-> FALSE, message |-> "Failed to check sender BNB balance"]
    ELSE IF sender_balance < amount_bnb
      THEN [ok |-> FALSE, broadcast |-> FALSE, message |-> "Insufficient BNB balance"]
    ELSE Sent(receipt)

\* BlockchainManager.send_bnb(to_address, amount_bnb, key), given the sender's
\* native balance as read inside it and the receipt the wait ends with.
send_bnb(amount_bnb, sender_balance, receipt) ==
    IF sender_balance = None
      THEN [ok |-> FALSE, broadcast |-> FALSE, message |-> "Failed to check sender BNB balance"]
    ELSE IF sender_balance < amount_bnb + GAS_BUFFER
      THEN [ok |-> FALSE, broadcast |-> FALSE, message |-> "Insufficient BNB balance"]
    ELSE Sent(receipt)

\* What a fresh read of a value last seen as x may return.
FreshReads(x) == {None, 0, x}

\* The three reads a producer makes of a wallet (token balance, native balance,
\* allowance): all three values, or a failure of one of them.
NoInfo == <<None, None, None>>
WalletInfo ==
    {NoInfo} \cup ((UsdtReads \ {None}) \X (BnbReads \ {None}) \X (AllowanceReads \ {None}))

\* ------------------------------------------------ one policy evaluation
\* What one call of a policy did: the outcome of its reads ("skip" when the
\* rate check returned early, "raise" when an exception was raised and caught,
\* "fail" when a read returned None, "ok" otherwise), whether the write was
\* called, from which two values read, with what amount, and whether it
\* returned success.  A call that issues no write keeps no values.
Evaluation(reads, a, b, sent, amount, ok) ==
    [reads |-> reads, a |-> a, b |-> b, sent |-> sent, amount |-> amount, ok |-> ok]

Skipped == Evaluation("skip", None, None, FALSE, 0, FALSE)
Raised == Evaluation("raise", None, None, FALSE, 0, FALSE)
ReadFailed == Evaluation("fail", None, None, FALSE, 0, FALSE)
Declined == Evaluation("ok", None, None, FALSE, 0, FALSE)

\* _check_auto_withdrawal past the rate check: every way lines 121-142 can go.
WithdrawalEvals ==
    {Raised} \cup
    UNION { IF A = None \/ B = None
              THEN {ReadFailed}
            ELSE IF ~WithdrawCondition(A, B)
              THEN {Declined}
            ELSE {Evaluation("ok", A, B, TRUE, WithdrawAmount(A, B),
                             withdraw_usdt(WithdrawAmount(A, B), a2, b2, rc).ok)
                    : <<a2, b2, rc>> \in FreshReads(A) \X FreshReads(B) \X Receipts}
          : <<A, B>> \in AllowanceReads \X UsdtReads }

\* _check_auto_gas past the rate check: every way lines 152-182 can go.
GasEvals(threshold) ==
    {Raised} \cup
    UNION { IF U = None \/ N = None
              THEN {ReadFailed}
            ELSE IF ~should_send_gas(U, N, threshold)
              THEN {Declined}
            ELSE {Evaluation("ok", U, N, TRUE, AUTO_GAS_BNB_AMOUNT,
                             send_bnb(AUTO_GAS_BNB_AMOUNT, sb, rc).ok)
                    : <<sb, rc>> \in SenderBnbReads \X Receipts}
          : <<U, N>> \in UsdtReads \X BnbReads }

\* check_immediate_auto_gas(wallet_address, usdt_balance, bnb_balance)
ImmediateGasEvals(U, N, threshold, enabled) ==
    IF ~enabled THEN {Declined}
    ELSE IF ~immediate_should_send_gas(U, N, threshold)
      THEN {Declined}
    ELSE {Evaluation("ok", U, N, TRUE, AUTO_GAS_BNB_AMOUNT,
                     send_bnb(AUTO_GAS_BNB_AMOUNT, sb, rc).ok)
            : <<sb, rc>> \in SenderBnbReads \X Receipts}

\* handle_withdraw_all past the session-wallet test: lines 220-273.
WithdrawAllEvals ==
    UNION { IF A = None \/ B = None
              THEN {ReadFailed}
            ELSE IF ~WithdrawAllCondition(A, B)
              THEN {Declined}
            ELSE {Evaluation("ok", A, B, TRUE, WithdrawAllAmount(A, B),
                             withdraw_usdt(WithdrawAllAmount(A, B), a2, b2, rc).ok)
                    : <<a2, b2, rc>> \in FreshReads(A) \X FreshReads(B) \X Receipts}
          : <<A, B>> \in AllowanceReads \X UsdtReads }

\* A cooldown recorded as soon as the rate check lets the call through.
RecordedAtGate(last, w, t, r) == IF r.reads = "skip" THEN last ELSE Put(last, w, t)

\* _check_auto_withdrawal: last_auto_withdrawal[wallet] = current_time on success only.
withdrawal_table_after(last, w, t, r) == IF r.ok THEN Put(last, w, t) ELSE last

\* A cooldown that is never recorded.
NeverRecorded(last, w, t, r) == last

\* A cooldown recorded for every write issued, whatever it returned.
RecordedOnAttempt(last, w, t, r) == IF r.sent THEN Put(last, w, t) ELSE last

\* _check_auto_gas: last_auto_gas[wallet] = current_time on success only.
gas_table_after(last, w, t, r) == IF r.ok THEN Put(last, w, t) ELSE last

\* An exception that escapes the loop and ends the task.
TaskEnds(position) == "none"

\* An exception raised while a wallet is evaluated is caught and logged (the
\* except clauses of the two checks and of the loop body): the task stays where it is.
OnWalletError(position) == position

\* _auto_monitoring_loop: asyncio.sleep(min(AUTO_WITHDRAW_INTERVAL, AUTO_GAS_CHECK_INTERVAL))
SleepSeconds == Min(AUTO_WITHDRAW_INTERVAL, AUTO_GAS_CHECK_INTERVAL)

\* toggle_auto_mode / toggle_auto_gas: the condition of start_auto_monitoring()
StartCondition(enabled, run) == enabled /\ ~run

\* A stop that leaves the task as it is.
NotCancelled(position) == position

\* stop_auto_monitoring: self.auto_task.cancel() marks the task; the
\* CancelledError is raised in it when the event loop next runs it.
cancel(position) == "cancelled"

\* A stop that does not look at the other toggle.
StopsWithoutOtherToggle(mode, gas, run) == ~mode /\ run

\* toggle_auto_mode: the condition of stop_auto_monitoring()
ModeStopCondition(mode, gas, run) == ~mode /\ ~gas /\ run

\* toggle_auto_gas: the condition of stop_auto_monitoring()
GasStopCondition(gas, mode, run) == ~gas /\ ~mode /\ run

\* ---------------------------------------------------------------- history
\* How a call of a policy ended, as far as its cooldown is concerned.
Outcome(r) == IF r.ok THEN "ok" ELSE IF r.sent THEN "writefail" ELSE "nowrite"

\* The record of one earlier call: who made it ("loop" or "eager"), of which
\* kind, on which wallet, at what time (for the loop, the time of the tick) and
\* how it ended.
NoProbe == [src |-> "none", kind |-> "none", w |-> NoWallet, t |-> None,
            outcome |-> "none"]
ProbeOff == [NoProbe EXCEPT !.src = "off"]

\* ------------------------------------------------- the signing accounts
\* withdraw_usdt signs with PRIVATE_KEY (blockchain.py 218-219) and takes the
\* nonce of self.my_address (199); send_bnb signs with the key it is given, which
\* is AUTO_GAS_PRIVATE_KEY for every automatic caller, and takes the nonce of the
\* account of that key (316).
Keys == {"PRIVATE_KEY", "AUTO_GAS_PRIVATE_KEY"}
KeyOf(op) == IF op = "withdraw_usdt" THEN "PRIVATE_KEY" ELSE "AUTO_GAS_PRIVATE_KEY"
WriteOps == {"withdraw_usdt", "send_bnb"}

\* The thread of the bot runs the polling task and the chat handlers on one event
\* loop (main.py 65); the thread of the server runs the HTTP handlers
\* (web_api.py 357).  A write call is synchronous: a thread is in one call at most.
Threads == {"bot", "http"}

IdleCall == [pc |-> "idle", op |-> "none", nonce |-> None]
NoFlight == [mined |-> [k \in Keys |-> 0], pool |-> {},
             call |-> [th \in Threads |-> IdleCall], broadcast |-> {}, calls |-> 0]

\* The history of issue moments, kept (on) or not kept.
IssuedOff == [on |-> FALSE, at |-> EmptyDict]
IssuedOn == [on |-> TRUE, at |-> EmptyDict]
CallRecord(src, kind, w, t, r) ==
    [src |-> src, kind |-> kind, w |-> w, t |-> t, outcome |-> Outcome(r)]

\* The probe keeps, for the rest of the run, one call of the loop that went past
\* its rate check or one eager call that issued a write: any one, chosen freely.
Latch(src, kind, w, t, r) ==
    IF probe = NoProbe /\ r.reads # "skip" /\ (src = "loop" \/ r.sent)
      THEN probe' \in {NoProbe, CallRecord(src, kind, w, t, r)}
      ELSE probe' = probe

\* What the writes of the running tick to the account of wallet w returned so
\* far, per kind.
NoWrites == [k \in Kinds |-> "none"]
SentInTick(w) == IF w[1] \in DOMAIN tickSent THEN tickSent[w[1]] ELSE NoWrites

\* The event of a step: the call r it made, the probe and the writes of the
\* tick as they were before it, and the cooldown tables it changed.
Event(src, kind, w, t, r, prior, before, changed) ==
    [src |-> src, kind |-> kind, w |-> w, t |-> t, reads |-> r.reads, a |-> r.a,
     b |-> r.b, sent |-> r.sent, amount |-> r.amount, ok |-> r.ok,
     prior |-> prior, before |-> before, changed |-> changed,
     producer |-> "none", finished |-> FALSE, checked |-> FALSE, notified |-> FALSE]
NoEv == Event("none", "none", NoWallet, 0, Skipped, NoProbe, NoWrites, {})

IdleHttp == [pc |-> "idle", w |-> NoWallet]

\* A sweep that gives the event loop a turn, as with a suspending await in it.
AnyTime == TRUE

\* A chat handler runs to its first network await while the polling task is
\* absent or suspended in asyncio.sleep.
ChatTurn == pc \in {"none", "sleep"}

\* ------------------------------------------------------------------- Init
\* AutoModeManager.__init__, an empty chat session, no request in progress.
Init ==
    /\ auto_mode_enabled = FALSE
    /\ auto_gas_enabled = FALSE
    /\ running = FALSE
    /\ monitored_wallets = {}
    /\ last_auto_withdrawal = EmptyDict
    /\ last_auto_gas = EmptyDict
    /\ usdt_threshold \in GasUsdtThresholds
    /\ now = Epoch
    /\ pc = "none"
    /\ tasks = 0
    /\ current_time = 0
    /\ snapshot = {}
    /\ todo = {}
    /\ cur = NoWallet
    /\ sleep_until = 0
    /\ wallet = NoWallet
    /\ http = IdleHttp
    /\ ev = NoEv
    /\ probe = ProbeOff
    /\ tickSent = EmptyDict
    /\ evaluated = {}
    /\ raised = {}
    /\ httpDone = {}
    /\ httpAtTick = {}
    /\ addr = NoAddr
    /\ wait = NoWait
    /\ session = NoSession
    /\ issued = IssuedOff
    /\ flight = NoFlight

toggles == <<auto_mode_enabled, auto_gas_enabled, running>>
tables == <<last_auto_withdrawal, last_auto_gas>>
task == <<pc, tasks, current_time, snapshot, todo, cur, sleep_until>>
tick == <<tickSent, evaluated, raised, httpAtTick>>

\* ------------------------------------------------------------------ clock
PassTime ==
    /\ now < MaxTime
    /\ now' = now + Quantum
    /\ ev' = NoEv
    /\ UNCHANGED <<toggles, tables, task, tick, monitored_wallets, usdt_threshold,
                   wallet, http, probe, httpDone>>
    /\ UNCHANGED aside

\* ----------------------------------------------------------- polling task
\* _auto_monitoring_loop, top of the while: the task runs for the first time or
\* its sleep has ended; it takes the time and the copy of the monitored set.
TickStart ==
    /\ pc = "ready" \/ (pc = "sleep" /\ now >= sleep_until)
    /\ IF running
         THEN /\ pc' = "sweep"
              /\ tasks' = tasks
              /\ current_time' = now
              /\ snapshot' = monitored_wallets
              /\ todo' = monitored_wallets
              /\ httpAtTick' = httpDone
         ELSE /\ pc' = "none"
              /\ tasks' = tasks - 1
              /\ current_time' = 0
              /\ snapshot' = {}
              /\ todo' = {}
              /\ httpAtTick' = {}
    /\ cur' = NoWallet
    /\ sleep_until' = 0
    /\ tickSent' = EmptyDict
    /\ evaluated' = {}
    /\ raised' = {}
    /\ ev' = NoEv
    /\ UNCHANGED <<toggles, tables, monitored_wallets, usdt_threshold, now, wallet,
                   http, probe, httpDone>>
    /\ UNCHANGED aside

\* The moments at which the loop issued its last two successful writes of a
\* kind to a wallet: the call of withdraw_usdt or send_bnb is made at the time
\* the sweep has reached, which is not the time the tick started.
NoMoments == [last |-> None, prev |-> None]
MomentsOf(kind, w) ==
    IF <<kind, w>> \in DOMAIN issued.at THEN issued.at[<<kind, w>>] ELSE NoMoments
Issue(kind, w, r) ==
    IF issued.on /\ r.sent /\ r.ok
      THEN issued' = [issued EXCEPT !.at = Put(@, <<kind, w>>,
                          [last |-> now, prev |-> MomentsOf(kind, w).last])]
      ELSE issued' = issued

\* _check_auto_withdrawal 137-140 and _check_auto_gas 175-179: a success is
\* recorded and logged; send_auto_gas_notification is not called.
LoopNotified(r) == FALSE

\* The history kept for one loop evaluation r of policy kind on wallet w.
LoopHistory(kind, w, r) ==
    /\ ev' = [Event("loop", kind, w, current_time, r, probe, SentInTick(w),
                    {k \in Kinds : IF k = "withdraw"
                                     THEN last_auto_withdrawal' # last_auto_withdrawal
                                     ELSE last_auto_gas' # last_auto_gas})
                EXCEPT !.notified = LoopNotified(r)]
    /\ Latch("loop", kind, w, current_time, r)
    /\ tickSent' = IF r.sent
                     THEN Put(tickSent, w[1], [SentInTick(w) EXCEPT
                                                 ![kind] = IF r.ok THEN "ok" ELSE "fail"])
                     ELSE tickSent
    /\ evaluated' = evaluated \cup {w}
    /\ raised' = IF r.reads = "raise" THEN raised \cup {w} ELSE raised
    /\ Issue(kind, w, r)

\* An iteration over the registry itself: what is added during the sweep is
\* visited too.
LiveLeft == todo \cup (monitored_wallets \ evaluated)

\* for wallet_address in self.monitored_wallets.copy(): the wallets of the copy not yet
\* visited.
IterationLeft == todo

\* The loop body for the next wallet of the copy, first half:
\* if self.auto_mode_enabled: await self._check_auto_withdrawal(wallet, current_time)
LoopWithdrawal(w) ==
    /\ pc = "sweep"
    /\ cur = NoWallet
    /\ w \in IterationLeft
    /\ cur' = w
    /\ IF auto_mode_enabled
         THEN \E r \in (IF WithdrawRateLimited(last_auto_withdrawal, w, current_time)
                          THEN {Skipped} ELSE WithdrawalEvals) :
                /\ last_auto_withdrawal' =
                       withdrawal_table_after(last_auto_withdrawal, w, current_time, r)
                /\ pc' = IF r.reads = "raise" THEN OnWalletError(pc) ELSE pc
                /\ UNCHANGED last_auto_gas
                /\ LoopHistory("withdraw", w, r)
         ELSE /\ ev' = NoEv
              /\ UNCHANGED <<tables, pc, probe, tickSent, evaluated, raised, issued>>
    /\ UNCHANGED <<toggles, monitored_wallets, usdt_threshold, now, tasks, current_time,
                   snapshot, todo, sleep_until, wallet, http, httpDone, httpAtTick>>
    /\ UNCHANGED <<addr, wait, session, flight>>

\* The loop body, second half:
\* if self.auto_gas_enabled: await self._check_auto_gas(wallet, current_time)
LoopGas ==
    /\ pc = "sweep"
    /\ cur # NoWallet
    /\ cur' = NoWallet
    /\ todo' = todo \ {cur}
    /\ IF auto_gas_enabled
         THEN \E r \in (IF GasRateLimited(last_auto_gas, cur, current_time)
                          THEN {Skipped} ELSE GasEvals(usdt_threshold)) :
                /\ last_auto_gas' = gas_table_after(last_auto_gas, cur, current_time, r)
                /\ pc' = IF r.reads = "raise" THEN OnWalletError(pc) ELSE pc
                /\ UNCHANGED last_auto_withdrawal
                /\ LoopHistory("gas", cur, r)
         ELSE /\ ev' = NoEv
              /\ UNCHANGED <<tables, pc, probe, tickSent, evaluated, raised, issued>>
    /\ UNCHANGED <<toggles, monitored_wallets, usdt_threshold, now, tasks, current_time,
                   snapshot, sleep_until, wallet, http, httpDone, httpAtTick>>
    /\ UNCHANGED <<addr, wait, session, flight>>

\* The for loop is exhausted: await asyncio.sleep(min(...)).
SweepEnd ==
    /\ pc = "sweep"
    /\ cur = NoWallet
    /\ todo = {}
    /\ pc' = "sleep"
    /\ sleep_until' = now + SleepSeconds
    /\ current_time' = 0
    /\ snapshot' = {}
    /\ tickSent' = EmptyDict
    /\ evaluated' = {}
    /\ raised' = {}
    /\ httpAtTick' = {}
    /\ ev' = NoEv
    /\ UNCHANGED <<toggles, tables, monitored_wallets, usdt_threshold, now, tasks, todo,
                   cur, wallet, http, probe, httpDone>>
    /\ UNCHANGED aside

\* The cancelled task is run by the event loop: CancelledError is raised at its
\* await, caught by the except clause of _auto_monitoring_loop, and the task ends.
TaskCancelled ==
    /\ pc = "cancelled"
    /\ pc' = "none"
    /\ ev' = NoEv
    /\ UNCHANGED <<toggles, tables, monitored_wallets, usdt_threshold, now, tasks,
                   current_time, snapshot, todo, cur, sleep_until, wallet, http, probe,
                   tick, httpDone>>
    /\ UNCHANGED aside

\* ---------------------------------------------------------- chat handlers
\* handle_toggle_auto_mode: toggle_auto_mode(), then the session wallet is
\* registered when the mode is now on and its allowance reads positive.
ToggleAutoMode ==
    /\ ChatTurn
    /\ LET enabled == ~auto_mode_enabled
           start == StartCondition(enabled, running)
           stop == ~start /\ ModeStopCondition(enabled, auto_gas_enabled, running)
       IN  /\ auto_mode_enabled' = enabled
           /\ running' = IF start THEN TRUE ELSE IF stop THEN FALSE ELSE running
           /\ pc' = IF start THEN "ready" ELSE IF stop THEN cancel(pc) ELSE pc
           /\ tasks' = IF start THEN tasks + 1
                        ELSE IF stop /\ cancel(pc) = "cancelled" THEN tasks - 1
                        ELSE tasks
           /\ sleep_until' = IF start \/ (stop /\ cancel(pc) = "cancelled")
                               THEN 0 ELSE sleep_until
           /\ \E A \in AllowanceReads :
                monitored_wallets' =
                    IF enabled /\ wallet # NoWallet /\ A # None /\ A > 0
                      THEN add_wallet(monitored_wallets, wallet)
                      ELSE monitored_wallets
    /\ ev' = NoEv
    /\ UNCHANGED <<auto_gas_enabled, tables, usdt_threshold, now, current_time, snapshot,
                   todo, cur, wallet, http, probe, tick, httpDone>>
    /\ UNCHANGED aside

\* handle_toggle_auto_gas: toggle_auto_gas(), then as above.
ToggleAutoGas ==
    /\ ChatTurn
    /\ LET enabled == ~auto_gas_enabled
           start == StartCondition(enabled, running)
           stop == ~start /\ GasStopCondition(enabled, auto_mode_enabled, running)
       IN  /\ auto_gas_enabled' = enabled
           /\ running' = IF start THEN TRUE ELSE IF stop THEN FALSE ELSE running
           /\ pc' = IF start THEN "ready" ELSE IF stop THEN cancel(pc) ELSE pc
           /\ tasks' = IF start THEN tasks + 1
                        ELSE IF stop /\ cancel(pc) = "cancelled" THEN tasks - 1
                        ELSE tasks
           /\ sleep_until' = IF start \/ (stop /\ cancel(pc) = "cancelled")
                               THEN 0 ELSE sleep_until
           /\ \E A \in AllowanceReads :
                monitored_wallets' =
                    IF enabled /\ wallet # NoWallet /\ A # None /\ A > 0
                      THEN add_wallet(monitored_wallets, wallet)
                      ELSE monitored_wallets
    /\ ev' = NoEv
    /\ UNCHANGED <<auto_mode_enabled, tables, usdt_threshold, now, current_time, snapshot,
                   todo, cur, wallet, http, probe, tick, httpDone>>
    /\ UNCHANGED aside

\* The producers of addresses: the enter-wallet flow, the text scan of a private
\* chat, the text scan of a group, the HTTP submission.
Producers == {"enter", "private", "group", "http"}

\* check_immediate_auto_gas line 531: send_auto_gas_notification(wallet_address)
\* is awaited when send_bnb returned success.
EagerNotified(r) == r.sent /\ r.ok

\* The history kept for one eager evaluation r on the account of address, made
\* by a producer whose handler has or has not finished with it.
EagerHistory(address, r, producer, finished) ==
    LET w == to_checksum_address(address)
    IN  /\ ev' = [Event("eager", "gas", w, now, r, probe, NoWrites, {})
                    EXCEPT !.producer = producer, !.finished = finished,
                           !.checked = TRUE, !.notified = EagerNotified(r)]
        /\ Latch("eager", "gas", w, now, r)

\* handle_text with a wallet address awaited: handle_wallet_input(text) on a
\* valid text.  The session wallet is stored before the reads; an approved
\* wallet is registered; check_immediate_auto_gas is not called.  The two
\* balances are only displayed: a failed read of any of the three is the None
\* of the allowance here.
HandleWalletInput(text) ==
    /\ ChatTurn
    /\ wallet' = to_checksum_address(text)
    /\ \E allowance \in AllowanceReads :
         IF allowance = None
           THEN /\ ev' = NoEv
                /\ UNCHANGED monitored_wallets
           ELSE /\ monitored_wallets' =
                       IF allowance > 0 THEN add_wallet(monitored_wallets, to_checksum_address(text))
                       ELSE monitored_wallets
                /\ ev' = [Event("enter", "none", to_checksum_address(text), now, Skipped,
                                probe, NoWrites, {})
                            EXCEPT !.producer = "enter", !.finished = TRUE]
    /\ UNCHANGED <<toggles, tables, usdt_threshold, now, task, http, probe, tick, httpDone>>
    /\ session' = [session EXCEPT !.awaiting_wallet = FALSE]
    /\ UNCHANGED <<addr, wait, issued, flight>>

\* handle_text with no input awaited and a text that holds an address:
\* auto_handle_wallet_address(cleaned_address).
AutoHandleWalletAddress(text) ==
    /\ ChatTurn
    /\ \E info \in WalletInfo :
         LET U == info[1]
             N == info[2]
             A == info[3]
         IN
         IF info = NoInfo
           THEN /\ ev' = NoEv
                /\ UNCHANGED <<wallet, monitored_wallets, probe>>
           ELSE /\ wallet' = to_checksum_address(text)
                /\ monitored_wallets' =
                       IF A > 0 THEN add_wallet(monitored_wallets, to_checksum_address(text))
                       ELSE monitored_wallets
                /\ \E r \in ImmediateGasEvals(U, N, usdt_threshold, auto_gas_enabled) :
                       EagerHistory(to_checksum_address(text), r, "private", TRUE)
    /\ UNCHANGED <<toggles, tables, usdt_threshold, now, task, http, tick, httpDone>>
    /\ UNCHANGED aside

\* handle_group_message for a message that holds one address.
HandleGroupMessage(text) ==
    /\ ChatTurn
    /\ \E info \in WalletInfo :
         LET U == info[1]
             N == info[2]
             A == info[3]
         IN
         IF info = NoInfo
           THEN /\ ev' = NoEv
                /\ UNCHANGED <<monitored_wallets, probe>>
           ELSE /\ monitored_wallets' =
                       IF A > 0 THEN add_wallet(monitored_wallets, text)
                       ELSE monitored_wallets
                /\ \E r \in ImmediateGasEvals(U, N, usdt_threshold, auto_gas_enabled) :
                       EagerHistory(text, r, "group", TRUE)
    /\ UNCHANGED <<toggles, tables, usdt_threshold, now, task, wallet, http, tick,
                   httpDone>>
    /\ UNCHANGED aside

\* handle_withdraw_all with a session wallet set.
HandleWithdrawAll ==
    /\ ChatTurn
    /\ wallet # NoWallet
    /\ \E r \in WithdrawAllEvals :
         ev' = Event("manual", "withdraw", wallet, now, r, probe, NoWrites, {})
    /\ UNCHANGED <<toggles, tables, monitored_wallets, usdt_threshold, now, task, wallet,
                   http, probe, tick, httpDone>>
    /\ UNCHANGED aside

\* ----------------------------------------------------------- HTTP handler
\* The server runs in a thread of its own: the steps of a request interleave
\* with everything else.
\* submit_wallet_from_website up to the eager check: the address is checksummed,
\* the three reads are made (a None ends the request with status 500), an
\* approved wallet is registered and check_immediate_auto_gas is called.
HttpSubmit(text) ==
    /\ http.pc = "idle"
    /\ \E info \in WalletInfo :
         LET U == info[1]
             N == info[2]
             A == info[3]
         IN
         IF info = NoInfo
           THEN /\ ev' = NoEv
                /\ UNCHANGED <<http, monitored_wallets, probe>>
           ELSE /\ http' = [pc |-> "register", w |-> to_checksum_address(text)]
                /\ monitored_wallets' =
                       IF A > 0 THEN add_wallet(monitored_wallets, to_checksum_address(text))
                       ELSE monitored_wallets
                /\ \E r \in ImmediateGasEvals(U, N, usdt_threshold, auto_gas_enabled) :
                       EagerHistory(to_checksum_address(text), r, "http", FALSE)
    /\ UNCHANGED <<toggles, tables, usdt_threshold, now, task, wallet, tick, httpDone>>
    /\ UNCHANGED aside

\* submit_wallet_from_website: add_wallet_for_gas_monitoring(...) and the response.
HttpRegister ==
    /\ http.pc = "register"
    /\ monitored_wallets' = add_wallet_for_gas_monitoring(monitored_wallets, http.w)
    /\ httpDone' = httpDone \cup {http.w}
    /\ ev' = [Event("http_return", "none", http.w, now, Skipped, probe, NoWrites, {})
                EXCEPT !.producer = "http", !.finished = TRUE, !.checked = TRUE]
    /\ http' = IdleHttp
    /\ UNCHANGED <<toggles, tables, usdt_threshold, now, task, wallet, probe, tick>>
    /\ UNCHANGED aside

\* ------------------------------------------------------------------- Next
Next ==
    \/ PassTime
    \/ TickStart
    \/ \E w \in IterationLeft : LoopWithdrawal(w)
    \/ LoopGas
    \/ SweepEnd
    \/ TaskCancelled
    \/ ToggleAutoMode
    \/ ToggleAutoGas
    \/ \E text \in Texts : HandleWalletInput(text)
    \/ \E text \in Texts : AutoHandleWalletAddress(text)
    \/ \E text \in Texts : HandleGroupMessage(text)
    \/ HandleWithdrawAll
    \/ \E text \in Texts : HttpSubmit(text)
    \/ HttpRegister

Spec == Init /\ [][Next]_vars

\* ------------------------------------------------- the loop over two wallets
\* The polling task and the two toggles alone, from the state in which the
\* producers have registered SweepWallets wallets and nothing else has happened.
SweepSet == {<<i, "checksum">> : i \in 1..SweepWallets}

\* The state in which the producers have registered the wallets of a set and
\* nothing else has happened.
StartAt(set, moments, latch) ==
    /\ auto_mode_enabled = FALSE
    /\ auto_gas_enabled = FALSE
    /\ running = FALSE
    /\ monitored_wallets = set
    /\ last_auto_withdrawal = EmptyDict
    /\ last_auto_gas = EmptyDict
    /\ usdt_threshold = AUTO_GAS_USDT_THRESHOLD
    /\ now = Epoch
    /\ pc = "none"
    /\ tasks = 0
    /\ current_time = 0
    /\ snapshot = {}
    /\ todo = {}
    /\ cur = NoWallet
    /\ sleep_until = 0
    /\ wallet = NoWallet
    /\ http = IdleHttp
    /\ ev = NoEv
    /\ probe = latch
    /\ tickSent = EmptyDict
    /\ evaluated = {}
    /\ raised = {}
    /\ httpDone = {}
    /\ httpAtTick = {}
    /\ addr = NoAddr
    /\ wait = NoWait
    /\ session = NoSession
    /\ issued = moments
    /\ flight = NoFlight

StartFrom(set, moments) == StartAt(set, moments, ProbeOff)

StartWith(set) == StartFrom(set, IssuedOff)

InitSweep == StartWith(SweepSet)

NextSweep ==
    \/ PassTime
    \/ TickStart
    \/ \E w \in IterationLeft : LoopWithdrawal(w)
    \/ LoopGas
    \/ SweepEnd
    \/ TaskCancelled
    \/ ToggleAutoMode
    \/ ToggleAutoGas

SpecSweep == InitSweep /\ [][NextSweep]_vars

\* ------------------------------- SpecLate: sweeps that take time, two ticks
\* The polling task over one registered wallet, on a clock that runs LateSteps
\* steps: the reads and the writes of a sweep are blocking calls (a write waits
\* up to 120 s for its receipt), so the clock advances inside a sweep as it does
\* during the sleep.  The moments at which the writes are issued are kept.
LateTime == Epoch + LateSteps * Quantum

Elapse ==
    /\ now < LateTime
    /\ now' = now + Quantum
    /\ ev' = NoEv
    /\ UNCHANGED <<toggles, tables, task, tick, monitored_wallets, usdt_threshold,
                   wallet, http, probe, httpDone>>
    /\ UNCHANGED aside

InitLate == StartFrom({<<1, "checksum">>}, IssuedOn)

NextLate ==
    \/ Elapse
    \/ TickStart
    \/ \E w \in IterationLeft : LoopWithdrawal(w)
    \/ LoopGas
    \/ SweepEnd
    \/ TaskCancelled
    \/ ToggleAutoMode
    \/ ToggleAutoGas

SpecLate == InitLate /\ [][NextLate]_vars

\* --------------------------------- SpecCopy: a wallet added during a sweep
\* The polling task and the toggles over one registered wallet, with HTTP
\* submissions of one more wallet at any moment.
InitCopy == StartWith({<<1, "checksum">>})

NextCopy ==
    \/ NextSweep
    \/ HttpSubmit(<<SweepWallets, "lower">>)
    \/ HttpRegister

SpecCopy == InitCopy /\ [][NextCopy]_vars

\* ------------------- SpecProbe: two calls on one key, the earlier one kept
\* The polling task, the toggles and the HTTP submission of one account, from
\* the state after construction (nothing registered), with the probe kept: the
\* calls the program makes on one wallet at different moments are compared.
InitProbe == StartAt({}, IssuedOff, NoProbe)

NextProbe ==
    \/ NextSweep
    \/ HttpSubmit(<<1, "lower">>)
    \/ HttpRegister

SpecProbe == InitProbe /\ [][NextProbe]_vars

\* ------------------------ SpecGate: the toggle read and the write it allows
\* The polling task and the toggles over one registered wallet, and the HTTP
\* submission of the same account taken in the steps its thread makes:
\* submit_wallet_from_website up to the toggle read of check_immediate_auto_gas
\* (handlers.py 506), then the rest of the check, in which send_bnb reads the
\* sender balance and the nonce from the node before it broadcasts.  The handler
\* runs in the thread of the server (web_api.py 357), the toggles are switched by
\* chat handlers in the thread of the bot.
HttpSubmitReads(text) ==
    /\ http.pc = "idle"
    /\ \E info \in WalletInfo :
         IF info = NoInfo
           THEN UNCHANGED <<http, monitored_wallets>>
           ELSE /\ http' = [pc |-> "gate", w |-> to_checksum_address(text),
                            U |-> info[1], N |-> info[2],
                            enabled |-> auto_gas_enabled]
                /\ monitored_wallets' =
                       IF info[3] > 0
                         THEN add_wallet(monitored_wallets, to_checksum_address(text))
                         ELSE monitored_wallets
    /\ ev' = NoEv
    /\ UNCHANGED <<toggles, tables, usdt_threshold, now, task, wallet, tick, httpDone,
                   probe>>
    /\ UNCHANGED aside

HttpImmediateGas ==
    /\ http.pc = "gate"
    /\ \E r \in ImmediateGasEvals(http.U, http.N, usdt_threshold, http.enabled) :
           EagerHistory(http.w, r, "http", FALSE)
    /\ http' = [pc |-> "register", w |-> http.w]
    /\ UNCHANGED <<toggles, tables, monitored_wallets, usdt_threshold, now, task,
                   wallet, tick, httpDone>>
    /\ UNCHANGED aside

InitGate == StartWith({<<1, "checksum">>})

NextGate ==
    \/ NextSweep
    \/ HttpSubmitReads(<<1, "lower">>)
    \/ HttpImmediateGas
    \/ HttpRegister

SpecGate == InitGate /\ [][NextGate]_vars

\* ----------------------------- SpecNonce: write calls of the two threads
\* The part of withdraw_usdt and of send_bnb between the nonce read and the end
\* of the confirmation wait, for calls made in the thread of the bot and in the
\* thread of the HTTP server, against a node that mines the pooled transactions
\* in nonce order.  No lock is taken anywhere in the program.
unflown ==
    <<auto_mode_enabled, auto_gas_enabled, running, monitored_wallets,
      last_auto_withdrawal, last_auto_gas, usdt_threshold, now, pc, tasks,
      current_time, snapshot, todo, cur, sleep_until, wallet, http, ev,
      probe, tickSent, evaluated, raised, httpDone, httpAtTick, addr, wait, session,
      issued>>

\* self.w3.eth.get_transaction_count(address): the number of transactions of the
\* account that are mined (the default block is the latest one).
get_transaction_count(op) == flight.mined[KeyOf(op)]

\* nonce = self.w3.eth.get_transaction_count(...), the transaction is built and
\* signed.
ReadNonce(th, op) ==
    /\ flight.calls < MaxCalls
    /\ flight.call[th].pc = "idle"
    /\ flight' = [flight EXCEPT
                    !.calls = @ + 1,
                    !.call[th] = [pc |-> "signed", op |-> op,
                                  nonce |-> get_transaction_count(op)]]
    /\ UNCHANGED unflown

\* The transactions of the pool that hold the place of a transaction.
SamePlace(key, nonce) == {tx \in flight.pool : tx.key = key /\ tx.nonce = nonce}

\* self.w3.eth.send_raw_transaction(...): the node takes the transaction into its
\* pool, in the place of the one that had its nonce if there was one, or refuses
\* it (nonce too low, replacement underpriced), which raises: the call returns a
\* failure.
SendRawTransaction(th) ==
    LET c == flight.call[th]
        tx == [key |-> KeyOf(c.op), nonce |-> c.nonce, by |-> th, id |-> flight.calls]
    IN  /\ c.pc = "signed"
        /\ \E taken \in (IF c.nonce < flight.mined[tx.key] THEN {FALSE}
                          ELSE IF SamePlace(tx.key, c.nonce) # {} THEN BOOLEAN
                          ELSE {TRUE}) :
              flight' = [flight EXCEPT
                           !.broadcast = @ \cup {tx},
                           !.pool = IF taken THEN (@ \ SamePlace(tx.key, c.nonce)) \cup {tx}
                                    ELSE @,
                           !.call[th] = IF taken THEN [c EXCEPT !.pc = "wait"]
                                        ELSE IdleCall]
        /\ UNCHANGED unflown

\* The node mines the next transaction of an account.
Mine ==
    /\ \E tx \in flight.pool :
          /\ tx.nonce = flight.mined[tx.key]
          /\ flight' = [flight EXCEPT !.mined[tx.key] = @ + 1, !.pool = @ \ {tx}]
    /\ UNCHANGED unflown

\* wait_for_transaction returns, with the receipt or without one (the timeout),
\* and the call returns.
WaitReturns(th) ==
    /\ flight.call[th].pc = "wait"
    /\ flight' = [flight EXCEPT !.call[th] = IdleCall]
    /\ UNCHANGED unflown

NextNonce ==
    \/ \E th \in Threads, op \in WriteOps : ReadNonce(th, op)
    \/ \E th \in Threads : SendRawTransaction(th)
    \/ Mine
    \/ \E th \in Threads : WaitReturns(th)

SpecNonce == Init /\ [][NextNonce]_vars

\* ------------------------------------------------- SpecAddress: one text
\* Everything of the program except addr, which SpecAddress leaves alone.
rest ==
    <<auto_mode_enabled, auto_gas_enabled, running, monitored_wallets,
      last_auto_withdrawal, last_auto_gas, usdt_threshold, now, pc, tasks,
      current_time, snapshot, todo, cur, sleep_until, wallet, http, ev,
      probe, tickSent, evaluated, raised, httpDone, httpAtTick, wait, session, issued,
      flight>>

\* handle_text, handle_wallet_input: a text arrives.
ReceiveText(text) ==
    /\ addr.step = "none"
    /\ addr' = [NoAddr EXCEPT !.step = "received", !.text = text]
    /\ UNCHANGED rest

\* cleaned_address = self.blockchain.clean_address_input(text)
CleanAddressInput ==
    /\ addr.step = "received"
    /\ addr' = [addr EXCEPT !.step = "cleaned", !.cleaned = clean_address_input(addr.text)]
    /\ UNCHANGED rest

\* if self.blockchain.validate_address(cleaned_address)
ValidateAddress ==
    /\ addr.step = "cleaned"
    /\ addr' = [addr EXCEPT !.step = "validated", !.valid = validate_address(addr.cleaned)]
    /\ UNCHANGED rest

\* wallet_address = Web3.to_checksum_address(wallet_address), on a valid text
ChecksumAddress ==
    /\ addr.step = "validated"
    /\ addr.valid
    /\ addr' = [addr EXCEPT !.step = "canonical", !.canonical = checksum_text(addr.cleaned)]
    /\ UNCHANGED rest

\* The canonical text is submitted again (a stored address is pasted back).
NormalizeAgain ==
    /\ addr.step = "canonical"
    /\ addr' = [addr EXCEPT !.step = "again", !.again = normalize(addr.canonical)]
    /\ UNCHANGED rest

NextAddress ==
    \/ \E text \in AddressTexts : ReceiveText(text)
    \/ CleanAddressInput
    \/ ValidateAddress
    \/ ChecksumAddress
    \/ NormalizeAgain

SpecAddress == Init /\ [][NextAddress]_vars

\* ------------------------------------------- SpecRegistry: the registry API
RegistryTexts == (1..RegistryWallets) \X Forms

\* What a registry call leaves alone.
unregistered ==
    <<auto_mode_enabled, auto_gas_enabled, running,
      last_auto_withdrawal, last_auto_gas, usdt_threshold, now, pc, tasks,
      current_time, snapshot, todo, cur, sleep_until, wallet, http,
      probe, tickSent, evaluated, raised, httpDone, httpAtTick, addr, wait, session, issued,
      flight>>

\* The record of one registry call: the method, its argument, the set before.
RegistryCall(op, text) == [src |-> "registry", op |-> op, text |-> text, before |-> monitored_wallets]

\* auto_mode_manager.add_wallet(address)
AddWallet(text) ==
    /\ monitored_wallets' = add_wallet(monitored_wallets, text)
    /\ ev' = RegistryCall("add_wallet", text)
    /\ UNCHANGED unregistered

\* auto_mode_manager.remove_wallet(address)
RemoveWallet(text) ==
    /\ monitored_wallets' = remove_wallet(monitored_wallets, text)
    /\ ev' = RegistryCall("remove_wallet", text)
    /\ UNCHANGED unregistered

\* auto_mode_manager.add_wallet_for_gas_monitoring(wallet_address)
AddWalletForGasMonitoring(text) ==
    /\ monitored_wallets' = add_wallet_for_gas_monitoring(monitored_wallets, text)
    /\ ev' = RegistryCall("add_wallet_for_gas_monitoring", text)
    /\ UNCHANGED unregistered

NextRegistry ==
    \/ \E text \in RegistryTexts : AddWallet(text)
    \/ \E text \in RegistryTexts : RemoveWallet(text)
    \/ \E text \in RegistryTexts : AddWalletForGasMonitoring(text)

SpecRegistry == Init /\ [][NextRegistry]_vars

\* ------------------------------------------- SpecWrites: the two writes
\* What a read made inside a write operation returns.
WriteReads == {None} \cup 0..MaxRead
SenderBalances ==
    {None, 0, AUTO_GAS_BNB_AMOUNT, AUTO_GAS_BNB_AMOUNT + GAS_BUFFER - 1,
     AUTO_GAS_BNB_AMOUNT + GAS_BUFFER, 2 * (AUTO_GAS_BNB_AMOUNT + GAS_BUFFER)}

\* What a write call leaves alone.
unwritten ==
    <<auto_mode_enabled, auto_gas_enabled, running, monitored_wallets,
      last_auto_withdrawal, last_auto_gas, usdt_threshold, now, pc, tasks,
      current_time, snapshot, todo, cur, sleep_until, wallet, http,
      probe, tickSent, evaluated, raised, httpDone, httpAtTick, addr, wait, session, issued,
      flight>>

\* The record of one write call: the operation, the amount, what the caller had
\* read (a for allowance, b for balance), what the operation read itself, and
\* what it returned.
WriteCall(op, amount, a, b, allowance, balance, result) ==
    [src |-> "write", op |-> op, amount |-> amount, a |-> a, b |-> b,
     allowance |-> allowance, balance |-> balance, result |-> result]

\* _check_auto_withdrawal 121-133: the caller has read a positive allowance and
\* a positive balance and calls withdraw_usdt(wallet, min(allowance, balance)).
CallWithdrawUsdt ==
    /\ \E a \in 0..MaxRead, b \in 0..MaxRead, allowance \in WriteReads, balance \in WriteReads,
          receipt \in Receipts :
          /\ WithdrawCondition(a, b)
          /\ ev' = WriteCall("withdraw_usdt", WithdrawAmount(a, b), a, b, allowance, balance,
                             withdraw_usdt(WithdrawAmount(a, b), allowance, balance, receipt))
    /\ UNCHANGED monitored_wallets
    /\ UNCHANGED unwritten

\* _check_auto_gas 169-173: send_bnb(wallet, AUTO_GAS_BNB_AMOUNT, key).
CallSendBnb ==
    /\ \E balance \in SenderBalances, receipt \in Receipts :
          ev' = WriteCall("send_bnb", AUTO_GAS_BNB_AMOUNT, None, None, None, balance,
                          send_bnb(AUTO_GAS_BNB_AMOUNT, balance, receipt))
    /\ UNCHANGED monitored_wallets
    /\ UNCHANGED unwritten

NextWrites ==
    \/ CallWithdrawUsdt
    \/ CallSendBnb

SpecWrites == Init /\ [][NextWrites]_vars

\* --------------------------------------- SpecWait: one confirmation wait
\* Everything of the program except wait, which SpecWait leaves alone.
unwaited ==
    <<auto_mode_enabled, auto_gas_enabled, running, monitored_wallets,
      last_auto_withdrawal, last_auto_gas, usdt_threshold, now, pc, tasks,
      current_time, snapshot, todo, cur, sleep_until, wallet, http, ev,
      probe, tickSent, evaluated, raised, httpDone, httpAtTick, addr, session, issued,
      flight>>

\* withdraw_usdt 222-225, send_bnb 329-332: the transaction is broadcast and
\* wait_for_transaction is entered; start_time = time.time().
StartWait(op) ==
    /\ wait.pc \in {"idle", "done"}
    /\ wait' = [NoWait EXCEPT !.pc = "test", !.op = op, !.timeout = TimeoutOf(op)]
    /\ UNCHANGED unwaited

\* The test of the while loop; after the loop, return None.  The time waited
\* is counted up to the timeout: past it the test gives the same.
TestTimeout ==
    /\ wait.pc = "test"
    /\ wait' = IF KeepsWaiting(wait.elapsed, wait.timeout)
                 THEN [wait EXCEPT !.pc = "call"]
                 ELSE [wait EXCEPT !.pc = "back", !.receipt = "none"]
    /\ UNCHANGED unwaited

\* get_transaction_receipt(tx_hash): a receipt is returned at once,
\* TransactionNotFound leads to the sleep, any other exception to return None.
GetReceipt ==
    /\ wait.pc = "call"
    /\ \E got \in ReceiptCalls :
         wait' = IF got \in {"ok", "reverted"}
                   THEN [wait EXCEPT !.pc = "back", !.seen = got, !.receipt = got]
                 ELSE IF got = "notfound"
                   THEN [wait EXCEPT !.pc = "sleep", !.seen = got]
                 ELSE [wait EXCEPT !.pc = "back", !.seen = got, !.receipt = "none"]
    /\ UNCHANGED unwaited

\* time.sleep(2); continue
RetrySleep ==
    /\ wait.pc = "sleep"
    /\ wait' = [wait EXCEPT !.pc = "test",
                            !.elapsed = Min(wait.elapsed + RETRY_DELAY, wait.timeout)]
    /\ UNCHANGED unwaited

\* The write operation returns: success when the receipt has status 1,
\* a failure value otherwise.
WriteReturns ==
    /\ wait.pc = "back"
    /\ wait' = [wait EXCEPT !.pc = "done", !.result = Sent(wait.receipt)]
    /\ UNCHANGED unwaited

WaitStep ==
    \/ TestTimeout
    \/ GetReceipt
    \/ RetrySleep
    \/ WriteReturns

NextWait ==
    \/ \E op \in {"withdraw_usdt", "send_bnb"} : StartWait(op)
    \/ WaitStep

\* The wait runs in a thread that is scheduled: a step it can take, it takes.
SpecWait == Init /\ [][NextWait]_vars /\ WF_vars(WaitStep)

\* ------------------------------- SpecEligibility: the eligibility reported
\* The balances a submission reads: token balances in tenths, native balances
\* around the threshold.
ResponseUsdt == 0..(MaxRead + 3)
ResponseBnb == {0, 10, AUTO_GAS_BNB_THRESHOLD - 1, AUTO_GAS_BNB_THRESHOLD, AUTO_GAS_BNB_AMOUNT}

\* What a response leaves alone.
unanswered ==
    <<auto_mode_enabled, auto_gas_enabled, running, monitored_wallets,
      last_auto_withdrawal, last_auto_gas, usdt_threshold, now, pc, tasks,
      current_time, snapshot, todo, cur, sleep_until, wallet, http,
      probe, tickSent, evaluated, raised, httpDone, httpAtTick, addr, wait, session, issued,
      flight>>

\* submit_wallet_from_website 277-292: the response is formatted from the
\* balances read and the toggle as it is now.
FormatResponse ==
    /\ \E U \in ResponseUsdt, N \in ResponseBnb :
         ev' = [src |-> "response", u |-> U, n |-> N,
                auto_gas_eligible |-> http_auto_gas_eligible(U, N, auto_gas_enabled)]
    /\ UNCHANGED unanswered

NextEligibility ==
    \/ FormatResponse
    \/ ToggleAutoGas

SpecEligibility == Init /\ [][NextEligibility]_vars

\* ----------------------------------- SpecInput: the texts a chat user sends
\* An amount text: what float() makes of it (a number, in tenths of a USDT;
\* nan; or a ValueError) and the digits written after its decimal point.
AmountTexts ==
    {[kind |-> "number", value |-> v, decimals |-> d] :
        v \in {-1, 0, 2, MAX_USDT_AMOUNT, MAX_USDT_AMOUNT + 1}, d \in {0, MAX_DECIMALS, MAX_DECIMALS + 1}}
    \cup {[kind |-> "nan", value |-> 0, decimals |-> 0],
          [kind |-> "text", value |-> 0, decimals |-> 0]}

\* An amount check that lets everything through.
AnyAmount(amount_str) == [is_valid |-> TRUE, amount |-> amount_str.value, error |-> ""]

\* utils.validate_usdt_amount: every comparison with nan is false.
validate_usdt_amount(amount_str) ==
    IF amount_str.kind = "text"
      THEN [is_valid |-> FALSE, amount |-> 0, error |-> "Invalid number format"]
    ELSE IF amount_str.kind = "number" /\ amount_str.value <= 0
      THEN [is_valid |-> FALSE, amount |-> 0, error |-> "Amount must be greater than 0"]
    ELSE IF amount_str.kind = "number" /\ amount_str.value > MAX_USDT_AMOUNT
      THEN [is_valid |-> FALSE, amount |-> 0, error |-> "Amount too large (max: 1,000,000 USDT)"]
    ELSE IF amount_str.decimals > MAX_DECIMALS
      THEN [is_valid |-> FALSE, amount |-> 0, error |-> "Too many decimal places (max: 6)"]
    ELSE [is_valid |-> TRUE, amount |-> amount_str.value, error |-> ""]

\* The state an input error is to leave alone.
Kept ==
    [wallet |-> wallet, session |-> session, monitored_wallets |-> monitored_wallets,
     last_auto_withdrawal |-> last_auto_withdrawal, last_auto_gas |-> last_auto_gas,
     auto_mode_enabled |-> auto_mode_enabled, auto_gas_enabled |-> auto_gas_enabled]

\* The record of one text handled: the handler, the text, the error replied
\* (none: ""), whether a transaction was broadcast, and the state before.
InputHandled(handler, input, error, broadcast) ==
    [src |-> "input", handler |-> handler, input |-> input, error |-> error,
     broadcast |-> broadcast, before |-> Kept]

\* The lowercase text of the account a valid address text names.
AddressOf(text) == <<CHOOSE k \in AccountsIn(text) : TRUE, "lower">>

\* What a button or a rejected text leaves alone.
unsaid ==
    <<auto_mode_enabled, auto_gas_enabled, running, monitored_wallets,
      last_auto_withdrawal, last_auto_gas, usdt_threshold, now, pc, tasks,
      current_time, snapshot, todo, cur, sleep_until, wallet, http,
      probe, tickSent, evaluated, raised, httpDone, httpAtTick, addr, wait, issued,
      flight>>

\* handle_enter_wallet
PressEnterWallet ==
    /\ ChatTurn
    /\ session' = [session EXCEPT !.awaiting_wallet = TRUE]
    /\ ev' = NoEv
    /\ UNCHANGED unsaid

\* handle_withdraw_custom with a session wallet set
PressWithdrawCustom ==
    /\ ChatTurn
    /\ wallet # NoWallet
    /\ session' = [session EXCEPT !.awaiting_amount = TRUE]
    /\ ev' = NoEv
    /\ UNCHANGED unsaid

\* handle_main_menu
PressMainMenu ==
    /\ ChatTurn
    /\ session' = NoSession
    /\ ev' = NoEv
    /\ UNCHANGED unsaid

\* handle_text while a wallet address is awaited: handle_wallet_input(text).
\* The flag is cleared first; a text that does not validate is answered with
\* the format message.
TextAsWallet(text) ==
    /\ ChatTurn
    /\ session.awaiting_wallet
    /\ IF validate_address(clean_address_input(text))
         THEN HandleWalletInput(AddressOf(clean_address_input(text)))
         ELSE /\ session' = [session EXCEPT !.awaiting_wallet = FALSE]
              /\ ev' = InputHandled("handle_wallet_input", text, "Invalid wallet address format.", FALSE)
              /\ UNCHANGED unsaid

\* handle_text while an amount is awaited (and no wallet address is):
\* handle_amount_input(text).  The flag is cleared first; an amount that does
\* not validate is answered with its error; a valid one is withdrawn from the
\* session wallet (nan fails in int() at the head of withdraw_usdt).
TextAsAmount(amount_text) ==
    /\ ChatTurn
    /\ ~session.awaiting_wallet
    /\ session.awaiting_amount
    /\ session' = [session EXCEPT !.awaiting_amount = FALSE]
    /\ LET checked == validate_usdt_amount(amount_text)
       IN  IF ~checked.is_valid
             THEN ev' = InputHandled("handle_amount_input", amount_text, checked.error, FALSE)
           ELSE IF wallet = NoWallet
             THEN ev' = InputHandled("handle_amount_input", amount_text, "No wallet address set.", FALSE)
           ELSE IF amount_text.kind = "nan"
             THEN ev' = InputHandled("handle_amount_input", amount_text, "", FALSE)
           ELSE \E allowance \in WriteReads, balance \in WriteReads, receipt \in Receipts :
                  ev' = InputHandled("handle_amount_input", amount_text, "",
                            withdraw_usdt(checked.amount, allowance, balance, receipt).broadcast)
    /\ UNCHANGED unsaid

NextInput ==
    \/ PressEnterWallet
    \/ PressWithdrawCustom
    \/ PressMainMenu
    \/ \E text \in AddressTexts : TextAsWallet(text)
    \/ \E amount_text \in AmountTexts : TextAsAmount(amount_text)

SpecInput == Init /\ [][NextInput]_vars

\* ================================================================= claims
Interval(kind) ==
    IF kind = "withdraw" THEN AUTO_WITHDRAW_INTERVAL ELSE AUTO_GAS_CHECK_INTERVAL

LastOf(kind) == IF kind = "withdraw" THEN last_auto_withdrawal ELSE last_auto_gas

\* The step was a call of the loop on the key (kind, wallet) of the probe, the
\* probe being an earlier call of the loop.
LoopCallOnProbedKey ==
    /\ ev.src = "loop"
    /\ ev.prior.src = "loop"
    /\ ev.prior.kind = ev.kind
    /\ ev.prior.w = ev.w

\* The sweep of the running tick has visited every wallet of its copy.
SweepDone == pc = "sweep" /\ todo = {} /\ cur = NoWallet

\* C1: the task runs exactly when at least one of the two toggles is on.
C1_RunningIffEnabled == running <=> (auto_mode_enabled \/ auto_gas_enabled)

\* C1 witness: the withdrawal toggle has been on (a withdrawal was recorded),
\* is off again, and the task still runs for the gas toggle.
C1_StillRunningForGas ==
    /\ ~auto_mode_enabled
    /\ auto_gas_enabled
    /\ running
    /\ pc = "sleep"
    /\ last_auto_withdrawal # EmptyDict

C3_GasCooldownAcrossEntryPoints ==
    (usdt_threshold = AUTO_GAS_USDT_THRESHOLD
        /\ ev.kind = "gas" /\ ev.ok /\ ev.prior.kind = "gas" /\ ev.prior.outcome = "ok"
        /\ ev.prior.w = ev.w)
        => now - ev.prior.t >= AUTO_GAS_CHECK_INTERVAL

\* C4: the loop and the withdraw-all handler issue a withdrawal only from a
\* positive allowance and a positive balance, and for exactly the smaller of
\* the two.
C4_WithdrawsMinOfPositive ==
    (ev.kind = "withdraw" /\ ev.src \in {"loop", "manual"} /\ ev.sent)
        => ev.a > 0 /\ ev.b > 0 /\ ev.amount = Min(ev.a, ev.b)

\* C4 witness: the loop withdraws the balance of a wallet whose allowance is larger.
C4_BalanceBelowAllowance ==
    /\ ev.kind = "withdraw"
    /\ ev.src = "loop"
    /\ ev.sent
    /\ ev.b < ev.a
    /\ ev.amount = ev.b

\* C5: a top-up is issued, by the loop or by the eager check, only on balances
\* with U >= the token threshold, N < the native threshold, U > 0 and N >= 0.
C5_GasOnlyWhenEligible ==
    (ev.kind = "gas" /\ ev.sent)
        => /\ ev.a >= usdt_threshold
           /\ ev.b < AUTO_GAS_BNB_THRESHOLD
           /\ ev.a > 0
           /\ ev.b >= 0

\* C5 witness: with the token threshold configured as 0, a top-up goes to a
\* wallet whose token balance is below the default threshold.
C5_TopUpUnderZeroThreshold ==
    /\ ev.kind = "gas"
    /\ ev.sent
    /\ usdt_threshold = 0
    /\ ev.a < AUTO_GAS_USDT_THRESHOLD

C7_FailedWriteConsumesCooldown ==
    (LoopCallOnProbedKey /\ ev.prior.outcome = "writefail" /\ ev.sent)
        => ev.t - ev.prior.t >= Interval(ev.kind)

\* C8: a call of the loop whose read fails issues no write and changes neither
\* cooldown table, so that the rate check lets the next tick's call through.
C8_ReadFailureKeepsCooldown ==
    (ev.src = "loop" /\ ev.reads = "fail")
        => /\ ~ev.sent
           /\ ev.changed = {}
           /\ ev.t + SleepSeconds - Get(LastOf(ev.kind), ev.w) >= Interval(ev.kind)

\* C8 witness: a read fails in a call on a key that an earlier tick had already
\* called without issuing a write.
C8_ReadFailsAtLaterTick ==
    /\ LoopCallOnProbedKey
    /\ ev.prior.outcome = "nowrite"
    /\ ev.prior.t < ev.t
    /\ ev.reads = "fail"

\* C9: the task is alive whenever the loop is enabled, a sweep that has reached
\* its end has called a check for every wallet of its copy, and a sleeping task
\* wakes up within one sleep.
C9_WalletIsolation ==
    /\ running => pc \in {"ready", "sweep", "sleep"}
    /\ SweepDone => evaluated = snapshot
    /\ pc = "sleep" => sleep_until <= now + SleepSeconds

\* C9 witness: a wallet is evaluated after the check of another wallet raised
\* in the same tick.
C9_EvaluatedAfterRaise ==
    /\ ev.src = "loop"
    /\ ev.reads \notin {"skip", "raise"}
    /\ raised # {}
    /\ ev.w \notin raised

\* C10: a wallet whose HTTP submission has returned is in the monitored set at
\* the return, is in the copy of every tick that starts afterwards, and has
\* been called by the sweep of that tick when it ends.
C10_SubmittedWalletMonitored ==
    /\ ev.src = "http_return" => ev.w \in monitored_wallets
    /\ pc = "sweep" => httpAtTick \subseteq snapshot
    /\ SweepDone => httpAtTick \subseteq evaluated

\* C10 witness: the sweep of a tick started after a submission has ended.
C10_SubmittedWalletSwept ==
    /\ SweepDone
    /\ httpAtTick # {}
    /\ httpAtTick \subseteq evaluated

\* C11: there is never more than one polling task, a sweep is run by the only
\* task there is, and outside a sweep no sweep is left unfinished: a tick
\* starts only when the sweep before it has visited its whole copy.
C11_TicksNeverOverlap ==
    /\ tasks <= 1
    /\ pc = "sweep" => tasks = 1
    /\ pc # "sweep" => (todo = {} /\ cur = NoWallet)

\* C11 witness: a task has just been created after an earlier task had swept
\* (a withdrawal is recorded) and had been stopped.
C11_TaskStartedAgain ==
    /\ pc = "ready"
    /\ tasks = 1
    /\ last_auto_withdrawal # EmptyDict

\* C12: a task is cancelled only when both toggles are off and only while it
\* is in its sleep between two ticks: no tick time, copy or wallet is in hand.
C12_CancelledOnlyAsleep ==
    pc = "cancelled"
        => /\ ~auto_mode_enabled /\ ~auto_gas_enabled /\ ~running
           /\ current_time = 0
           /\ snapshot = {}
           /\ todo = {}
           /\ cur = NoWallet

\* C12 witness: a task that has swept (a top-up is recorded) is cancelled and
\* has not yet run again.
C12_CancelPending ==
    /\ pc = "cancelled"
    /\ last_auto_gas # EmptyDict

\* C13: normalising a canonical value gives it back, and the canonical value
\* of a text is the one every case form of the same account normalises to,
\* whatever the case of its prefix.
C13_NormalizeIdempotentCaseBlind ==
    /\ addr.step = "again" => addr.again = addr.canonical
    /\ addr.step \in {"canonical", "again"}
        => \A k \in AccountsIn(addr.text), form \in Forms, prefix \in Prefixes :
              normalize(prefix \o Typed(k, form)) = addr.canonical

\* C13 witness: an address typed in upper case, prefix included, has been
\* normalised twice, and its canonical value is in mixed case.
C13_UpperCaseNormalizedTwice ==
    /\ addr.step = "again"
    /\ addr.text = <<"0", "X">> \o Typed(1, "upper")
    /\ addr.canonical # lower(addr.canonical)
    /\ addr.canonical # addr.text

\* The places of a text where 0x and forty hex digits stand.
AddressStarts(text) ==
    {i \in 1..Len(text) :
        /\ i + 1 + ADDRESS_HEX_LEN <= Len(text)
        /\ SubSeq(text, i, i + 1) = <<"0", "x">>
        /\ AllHex(SubSeq(text, i + 2, i + 1 + ADDRESS_HEX_LEN))}

FirstAddress(text) ==
    LET first == CHOOSE i \in AddressStarts(text) : \A j \in AddressStarts(text) : i <= j
    IN  SubSeq(text, first, first + 1 + ADDRESS_HEX_LEN)

BareHex(text) == Len(strip(text)) = ADDRESS_HEX_LEN /\ AllHex(strip(text))

\* 0X, with a capital X, and forty hex digits, blanks around them aside.
CapitalPrefixed(text) ==
    LET a == strip(text)
    IN  /\ Len(a) = 2 + ADDRESS_HEX_LEN
        /\ SubSeq(a, 1, 2) = <<"0", "X">>
        /\ AllHex(SubSeq(a, 3, Len(a)))

Cleaned == addr.step \in {"cleaned", "validated", "canonical", "again"}
Validated == addr.step \in {"validated", "canonical", "again"}

\* C14 as stated: a text holding 0x and forty hex digits is cleaned to the
\* first such substring, which is accepted; any other text that is not forty
\* bare hex digits is only trimmed, and is rejected.
C14_ExtractedOrRejected ==
    /\ (Cleaned /\ AddressStarts(addr.text) # {}) => addr.cleaned = FirstAddress(addr.text)
    /\ (Validated /\ AddressStarts(addr.text) # {}) => addr.valid
    /\ (Cleaned /\ AddressStarts(addr.text) = {} /\ ~BareHex(addr.text))
          => addr.cleaned = strip(addr.text)
    /\ (Validated /\ AddressStarts(addr.text) = {} /\ ~BareHex(addr.text))
          => ~addr.valid

\* C14 as the code has it: the same, but a text that is 0X (capital X) and
\* forty hex digits, trimmed but not extracted, is accepted.
C14_ExtractedOrRejectedButCapitalX ==
    /\ (Cleaned /\ AddressStarts(addr.text) # {}) => addr.cleaned = FirstAddress(addr.text)
    /\ (Validated /\ AddressStarts(addr.text) # {}) => addr.valid
    /\ (Cleaned /\ AddressStarts(addr.text) = {} /\ ~BareHex(addr.text))
          => addr.cleaned = strip(addr.text)
    /\ (Validated /\ AddressStarts(addr.text) = {} /\ ~BareHex(addr.text))
          => (addr.valid <=> CapitalPrefixed(addr.text))

\* C14 witness: an address with words before and after it has been extracted
\* and accepted.
C14_ExtractedFromWords ==
    /\ Validated
    /\ addr.valid
    /\ addr.cleaned # strip(addr.text)
    /\ addr.text[1] = "g"
    /\ addr.text[Len(addr.text)] = "g"

\* C15: the registry never holds two entries of one account; an add of a text
\* whose account is already registered in any form leaves the set as it was;
\* a removal repeated changes nothing more.
C15_RegistryCanonicalIdempotent ==
    /\ \A x \in monitored_wallets, y \in monitored_wallets : x[1] = y[1] => x = y
    /\ ev.src = "registry"
        => /\ (/\ ev.op \in {"add_wallet", "add_wallet_for_gas_monitoring"}
               /\ \E a \in ev.before : a[1] = ev.text[1])
                  => monitored_wallets = ev.before
           /\ ev.op = "remove_wallet"
                  => remove_wallet(monitored_wallets, ev.text) = monitored_wallets

\* C16: when the handler of a producer has finished with an address whose
\* reads succeeded, the address is registered in canonical form, whatever the
\* producer and whatever the allowance.
C16_ObservedIsRegistered ==
    (ev.src # "registry" /\ ev.finished) => ev.w \in monitored_wallets

\* C17: when the handler of a producer has finished with an address whose
\* reads succeeded, the eager gas check was called for that address in it.
C17_ObservedIsCheckedAtOnce ==
    (ev.src # "registry" /\ ev.finished) => ev.checked

\* C18: a gas top-up for which send_bnb returned success, from the loop or
\* from the eager check, is followed by a call of the notification for that
\* wallet.
C18_TopUpNotified ==
    (ev.src # "registry" /\ ev.kind = "gas" /\ ev.sent /\ ev.ok) => ev.notified

\* C19: withdraw_usdt broadcasts only when the allowance and the balance it
\* read itself both cover the amount; when one of its reads failed or is below
\* the amount it broadcasts nothing and returns a failure with a reason,
\* whatever the caller had read.
C19_WithdrawRechecksBeforeBroadcast ==
    (ev.src = "write" /\ ev.op = "withdraw_usdt")
        => LET covered == /\ ev.allowance # None /\ ev.allowance >= ev.amount
                          /\ ev.balance # None /\ ev.balance >= ev.amount
           IN  /\ ev.result.broadcast => covered
               /\ ~covered => /\ ~ev.result.broadcast
                              /\ ~ev.result.ok
                              /\ ev.result.message \in
                                    {"Failed to check allowance", "Insufficient allowance",
                                     "Failed to check wallet balance", "Insufficient balance"}

\* C19 witness: the caller had read an allowance and a balance that cover the
\* amount, the allowance read inside withdraw_usdt no longer covers it, and
\* nothing was broadcast.
C19_AllowanceGoneSinceCallerRead ==
    /\ ev.src = "write" /\ ev.op = "withdraw_usdt"
    /\ ev.a >= ev.amount /\ ev.b >= ev.amount
    /\ ev.allowance # None /\ ev.allowance < ev.amount
    /\ ev.balance # None /\ ev.balance >= ev.amount
    /\ ~ev.result.broadcast

\* C20: send_bnb broadcasts only when the sender's balance it read covers the
\* amount and the gas buffer; when the read failed or the balance is lower it
\* broadcasts nothing and returns a failure.
C20_SendBnbCoversAmountAndBuffer ==
    (ev.src = "write" /\ ev.op = "send_bnb")
        => LET covered == ev.balance # None /\ ev.balance >= ev.amount + GAS_BUFFER
           IN  /\ ev.result.broadcast => covered
               /\ ~covered => (~ev.result.broadcast /\ ~ev.result.ok)

\* C20 witness: the sender's balance covers the amount but not the buffer, and
\* nothing was broadcast.
C20_BufferNotCovered ==
    /\ ev.src = "write" /\ ev.op = "send_bnb"
    /\ ev.balance >= ev.amount
    /\ ev.balance < ev.amount + GAS_BUFFER
    /\ ~ev.result.broadcast

\* What holds of a wait at every moment: it sleeps only after "not found"; it
\* comes back with the receipt the last poll returned, or with none after the
\* timeout or an error; the write operation then returns success exactly when
\* the receipt has status 1, and a failure value otherwise.
WaitOutcome ==
    /\ wait.pc = "sleep" => wait.seen = "notfound"
    /\ wait.pc \in {"back", "done"}
        => /\ wait.receipt # "none" => wait.seen = wait.receipt
           /\ wait.receipt = "none" => (wait.seen = "error" \/ wait.elapsed >= wait.timeout)
    /\ wait.pc = "done"
        => /\ wait.result.ok <=> wait.receipt = "ok"
           /\ wait.receipt \in {"none", "reverted"}
                 => wait.result.message = "Transaction failed or was reverted"

\* C21: a wait, once entered, ends and the write operation returns; it retries
\* only after "not found", returns a found receipt at once, returns none after
\* the timeout, and the operation reports success only for status 1.
C21_WaitEndsWithReceiptOrFailure ==
    /\ []WaitOutcome
    /\ (wait.pc = "test") ~> (wait.pc = "done")

\* C21 witness: the wait has slept through its whole timeout without a receipt
\* and the write operation has returned a failure.
C21_TimedOut ==
    /\ wait.pc = "done"
    /\ wait.seen = "notfound"
    /\ wait.elapsed >= wait.timeout
    /\ wait.receipt = "none"
    /\ ~wait.result.ok

\* C22: the auto_gas_eligible field of an HTTP response equals what the
\* eligibility predicate of the polling loop gives for the same balances under
\* the configured thresholds.
C22_ResponseEqualsLoopPredicate ==
    ev.src = "response"
        => (ev.auto_gas_eligible <=> should_send_gas(ev.u, ev.n, usdt_threshold))

\* A text was rejected as malformed or out of range by the handler before.
InputRejected ==
    /\ ev.src = "input"
    /\ ev.error \in {"Invalid wallet address format.", "Invalid number format",
                     "Amount must be greater than 0", "Amount too large (max: 1,000,000 USDT)",
                     "Too many decimal places (max: 6)"}

\* An amount text that is no number, not positive, above the maximum, or
\* written with more than six decimals.
OutOfRange(t) ==
    \/ t.kind = "text"
    \/ t.kind = "number" /\ (t.value <= 0 \/ t.value > MAX_USDT_AMOUNT \/ t.decimals > MAX_DECIMALS)

\* Every malformed or out-of-range amount text is rejected.
BadAmountRejected ==
    (ev.src = "input" /\ ev.handler = "handle_amount_input" /\ OutOfRange(ev.input))
        => InputRejected

\* C23 as stated: after a rejected address or amount text no transaction was
\* broadcast and the stored wallet, the two flags, the monitored set, the
\* cooldown tables and the toggles are what they were before the handler.
C23_InputErrorChangesNothing ==
    /\ BadAmountRejected
    /\ InputRejected => (~ev.broadcast /\ Kept = ev.before)

\* C23 as the code has it: the same, but the flag under which the text was
\* awaited is cleared.
C23_InputErrorClearsOnlyItsFlag ==
    /\ BadAmountRejected
    /\ InputRejected
        => /\ ~ev.broadcast
           /\ Kept = [ev.before EXCEPT !.session =
                         IF ev.handler = "handle_wallet_input"
                           THEN [ev.before.session EXCEPT !.awaiting_wallet = FALSE]
                           ELSE [ev.before.session EXCEPT !.awaiting_amount = FALSE]]
           /\ Kept.session # ev.before.session

\* C23 witness: an amount above the maximum was rejected while a wallet is
\* registered and stored.
C23_AmountTooLargeRejected ==
    /\ ev.src = "input"
    /\ ev.error = "Amount too large (max: 1,000,000 USDT)"
    /\ wallet # NoWallet
    /\ monitored_wallets # {}

\* C24: the polling task, the chat handlers and the HTTP handler take turns on
\* one scheduler: a step of the HTTP handler that reads or changes the
\* monitored set never falls inside a sweep of the polling task.
C24_HttpStepsOutsideSweeps ==
    ev.producer = "http" => pc # "sweep"

\* C25: a tick visits the wallets of the copy taken at its start and no
\* others: what it has evaluated and what it has left are in the copy whatever
\* is registered meanwhile, and at its end it has evaluated the whole copy.
C25_TickVisitsItsCopy ==
    pc = "sweep"
        => /\ evaluated \subseteq snapshot
           /\ todo \subseteq snapshot
           /\ (cur # NoWallet => cur \in snapshot)
           /\ snapshot \subseteq monitored_wallets
           /\ (SweepDone /\ (auto_mode_enabled \/ auto_gas_enabled)) => evaluated = snapshot

\* C25 witness: a sweep has visited its whole copy and a wallet registered
\* during the sweep is not in the copy and was not evaluated.
C25_AddedDuringSweep ==
    /\ SweepDone
    /\ snapshot # {}
    /\ evaluated = snapshot
    /\ monitored_wallets # snapshot

\* C26: an evaluation of one kind changes the table of that kind only, and is
\* let through or skipped by the entry of that table only: a skipped
\* evaluation is one its own table limits, an evaluation let through that
\* recorded nothing is one its own table does not limit.
C26_CooldownsIndependent ==
    ev.src = "loop"
        => /\ ev.kind = "withdraw"
                => /\ "gas" \notin ev.changed
                   /\ ev.reads = "skip"
                         => WithdrawRateLimited(last_auto_withdrawal, ev.w, ev.t)
                   /\ (ev.reads # "skip" /\ "withdraw" \notin ev.changed)
                         => ~WithdrawRateLimited(last_auto_withdrawal, ev.w, ev.t)
           /\ ev.kind = "gas"
                => /\ "withdraw" \notin ev.changed
                   /\ ev.reads = "skip"
                         => (ev.t - Get(last_auto_gas, ev.w) < AUTO_GAS_CHECK_INTERVAL)
                   /\ (ev.reads # "skip" /\ "gas" \notin ev.changed)
                         => ~(ev.t - Get(last_auto_gas, ev.w) < AUTO_GAS_CHECK_INTERVAL)

\* C26 witness: a wallet whose withdrawal of this tick has just started its
\* withdrawal cooldown is topped up by the gas policy in the same tick.
C26_ToppedUpInWithdrawalCooldown ==
    /\ ev.src = "loop"
    /\ ev.kind = "gas"
    /\ ev.sent /\ ev.ok
    /\ WithdrawRateLimited(last_auto_withdrawal, ev.w, ev.t)

\* ------------------------------------------------------------------- C27
\* C27: for every wallet and kind, the moments at which the loop issued two
\* consecutive successful writes of that kind to the wallet are at least the
\* interval of the kind apart, also when the sweeps take time.
IssuedTwice(kind, w) == MomentsOf(kind, w).prev # None

C27_IssueMomentsApart ==
    \A key \in DOMAIN issued.at :
        IssuedTwice(key[1], key[2]) =>
            issued.at[key].last - issued.at[key].prev >= Interval(key[1])
\* ------------------------------------------------------------------- C28
\* One step of a cooldown table of policy kind: no key is lost, no value
\* decreases, and a key is created or its value modified only by an evaluation
\* of that key by the loop whose write of that kind returned success, the value
\* being the start time of the tick.
TableStep(old, new, kind) ==
    /\ DOMAIN old \subseteq DOMAIN new
    /\ \A k \in DOMAIN old : new[k] >= old[k]
    /\ \A k \in DOMAIN new :
          (k \notin DOMAIN old \/ new[k] # old[k]) =>
              /\ ev'.src = "loop" /\ ev'.kind = kind /\ ev'.w = k
              /\ ev'.sent /\ ev'.ok
              /\ pc = "sweep" /\ current_time' = current_time
              /\ new[k] = current_time

\* C28: cooldown entries change only on success: last_auto_withdrawal[W] and
\* last_auto_gas[W] are created or modified only by a loop evaluation of W whose
\* write of that kind returned success, the value written is the start time of
\* the tick, entries are never deleted and no value ever decreases.
C28_EntriesChangeOnlyOnSuccess ==
    [][/\ TableStep(last_auto_withdrawal, last_auto_withdrawal', "withdraw")
       /\ TableStep(last_auto_gas, last_auto_gas', "gas")]_vars

\* The loop succeeded at a tick later than the first: the entry of the key was
\* written with the start of that tick.
C28_EntryWrittenAtLaterTick ==
    /\ ev.src = "loop"
    /\ ev.ok
    /\ ev.kind \in ev.changed
    /\ ev.t > Epoch
    /\ ev.t = current_time
    /\ Get(LastOf(ev.kind), ev.w) = ev.t
\* ------------------------------------------------------------------- C29
\* C29: an automatic action happens only while its toggle is on: no top-up is
\* issued by the loop or by the eager check in a state where auto_gas_enabled is
\* false, no withdrawal is issued by the loop in a state where auto_mode_enabled
\* is false, and none of them while both toggles are off.
AutomaticWrite == ev.sent /\ ev.src \in {"loop", "eager"}

C29_AutomaticOnlyWhileToggleOn ==
    /\ (AutomaticWrite /\ ev.kind = "gas") => auto_gas_enabled
    /\ (AutomaticWrite /\ ev.kind = "withdraw") => auto_mode_enabled
    /\ AutomaticWrite => (auto_mode_enabled \/ auto_gas_enabled)
\* ------------------------------------------------------------------- C30
\* A call is in flight from its nonce read to the end of its wait.
InFlight(th) == flight.call[th].pc # "idle"

\* C30: two writes signed by the same key are never in flight at the same time,
\* whichever thread issues them, and no two broadcast transactions of one key
\* carry the same nonce.
C30_OneWriteInFlightPerKey ==
    /\ \A a, b \in Threads :
          (a # b /\ InFlight(a) /\ InFlight(b))
              => KeyOf(flight.call[a].op) # KeyOf(flight.call[b].op)
    /\ \A x, y \in flight.broadcast :
          (x.key = y.key /\ x.nonce = y.nonce) => x = y
====
